---------------------------- MODULE Spec2Model ----------------------------
(***************************************************************************)
(* Layout engine of exportPresentation (slide export packer).              *)
(*                                                                         *)
(* Geometry.  The code works in inches: pxToInchX(px) = px/1920*10 and     *)
(* pxToInchY(px) = px/1080*5.625, the estimated height is 1.6 times the    *)
(* converted web height and the collision padding is 0.1 inch.  The model  *)
(* keeps these values exact by counting in units of 1/960 inch, so that    *)
(* one pixel is 5 units on both axes, the 1.6 multiplier is 8 units per    *)
(* pixel and the padding is 96 units.  Floating-point rounding of the      *)
(* JavaScript doubles is not modelled.                                     *)
(***************************************************************************)
EXTENDS Integers, Sequences, FiniteSets, TLC

\* ------------------------------------------------------------------------
\* Bounds of the model
\* ------------------------------------------------------------------------
MaxLen == 3          \* longest enumerated measurement list of a one-slide deck
MaxRepeatLen == 2    \* longest enumerated list of a deck that repeats a slide

\* ------------------------------------------------------------------------
\* Program constants
\* ------------------------------------------------------------------------
UNITS_PER_INCH == 960
SLIDE_WIDTH_INCHES == 10
RENDER_WIDTH_PX == 1920
RENDER_HEIGHT_PX == 1080
BUCKET_THRESHOLD == 50
WIDTH_DELTA == 100
TIE_TOLERANCE == 10
MAX_ATTEMPTS == 10
MIN_HWEB == 20
DEFAULT_FONT_PX == 24
BOLD_WEIGHT == 600

\* 5.625 inches, in units
SLIDE_HEIGHT_UNITS == (5625 * UNITS_PER_INCH) \div 1000
SLIDE_WIDTH_UNITS == SLIDE_WIDTH_INCHES * UNITS_PER_INCH
\* 0.1 inch padding, in units
PADDING == UNITS_PER_INCH \div 10

ignorableTypes == {"column", "column_group", "bullets"}
textTypes == {"h1", "h2", "h3", "h4", "p", "text", "bullet-item"}
headingTypes == {"h1", "h2", "h3", "h4"}
paragraphTypes == {"p", "text", "bullet-item"}

themeColors == [primary |-> "3B82F6", secondary |-> "1F2937", accent |-> "60A5FA",
                background |-> "FFFFFF", text |-> "1F2937", heading |-> "111827",
                muted |-> "6B7280"]

\* ------------------------------------------------------------------------
\* Arithmetic helpers
\* ------------------------------------------------------------------------
Abs(n) == IF n < 0 THEN 0 - n ELSE n

Max(a, b) == IF a > b THEN a ELSE b

MaxOf(S) == CHOOSE m \in S : \A n \in S : n <= m

Range(s) == {s[i] : i \in 1..Len(s)}

pxToInchX(px) == (px * SLIDE_WIDTH_UNITS) \div RENDER_WIDTH_PX

pxToInchY(px) == (px * SLIDE_HEIGHT_UNITS) \div RENDER_HEIGHT_PX

\* Mutant of EstimatedHeight: the 1.6 multiplier is left out
EstimatedHeight_NoMultiplier(hWebInch) == hWebInch

\* hWebInch * 1.6
EstimatedHeight(hWebInch) == (hWebInch * 16) \div 10

\* ------------------------------------------------------------------------
\* Array.prototype.sort as Node 20 (V8) runs it on arrays shorter than 64:
\* the leading run is found (and reversed when strictly descending), then
\* the remaining elements are placed by binary insertion.  With a consistent
\* comparator this is a stable sort; with an inconsistent one the result is
\* whatever these comparisons produce.
\* ------------------------------------------------------------------------
Reverse(s) == [i \in 1..Len(s) |-> s[Len(s) + 1 - i]]

\* col.eles.sort((a, b) => a.y - b.y)
CompareY(a, b) == a.y - b.y

\* Mutant of CompareGroups: no tie tolerance, by y and by x only at equal y
CompareGroups_NoTolerance(a, b) ==
  IF a.y = b.y THEN a.x - b.x ELSE a.y - b.y

\* renderQueue.sort comparator
CompareGroups(a, b) ==
  IF Abs(a.y - b.y) < TIE_TOLERANCE THEN a.x - b.x ELSE a.y - b.y

\* The comparator function passed to sort: "y" for the column elements,
\* "groups" for the render queue
Compare(cmp, a, b) == IF cmp = "y" THEN CompareY(a, b) ELSE CompareGroups(a, b)

\* Length of the leading run of an array of two or more elements
CountRun(s, cmp) ==
  LET n == Len(s)
      desc == Compare(cmp, s[2], s[1]) < 0
      Keeps(i) == IF desc THEN Compare(cmp, s[i], s[i-1]) < 0
                  ELSE Compare(cmp, s[i], s[i-1]) >= 0
  IN  CHOOSE r \in 2..n : /\ \A i \in 3..r : Keeps(i)
                          /\ (r < n => ~Keeps(r + 1))

\* The array with a strictly descending leading run reversed
MakeRun(s, cmp) ==
  LET r == CountRun(s, cmp)
  IN  IF Compare(cmp, s[2], s[1]) < 0
        THEN Reverse(SubSeq(s, 1, r)) \o SubSeq(s, r + 1, Len(s))
        ELSE s

\* Elements start..Len(s) inserted one by one into the sorted prefix, each
\* after the elements it does not compare below
BinaryInsertionSort(s, start, cmp) ==
  LET n == Len(s)
      Pos(arr, k) ==
        LET bs[l \in 1..(n + 1), r \in 1..(n + 1)] ==
              IF l < r
                THEN LET mid == l + ((r - l) \div 2)
                     IN  IF Compare(cmp, arr[k], arr[mid]) < 0
                           THEN bs[l, mid] ELSE bs[mid + 1, r]
                ELSE l
        IN  bs[1, k]
      Insert(arr, k) ==
        LET p == Pos(arr, k)
        IN  SubSeq(arr, 1, p - 1) \o <<arr[k]>> \o SubSeq(arr, p, k - 1)
              \o SubSeq(arr, k + 1, n)
      ins[k \in (start - 1)..n] == IF k < start THEN s ELSE Insert(ins[k - 1], k)
  IN  ins[n]

ArraySort(s, cmp) ==
  IF Len(s) < 2 THEN s
  ELSE BinaryInsertionSort(MakeRun(s, cmp), CountRun(s, cmp) + 1, cmp)

\* ------------------------------------------------------------------------
\* ElementMeasurement values.  A computed style is a string; the strings the
\* model uses and what the code's regular expressions and parseInt make of
\* them are tabulated below.
\* ------------------------------------------------------------------------
NoMatch == <<>>

DefaultStyles(type) ==
  IF type \in headingTypes
    THEN [fontSize |-> "72px", fontWeight |-> "700",
          color |-> "rgb(17, 24, 39)", textAlign |-> "center"]
    ELSE [fontSize |-> "24px", fontWeight |-> "400",
          color |-> "rgb(31, 41, 55)", textAlign |-> "left"]

Element(type, x, y, width, height, text) ==
  [index |-> 0, type |-> type, x |-> x, y |-> y, width |-> width,
   height |-> height, text |-> text, styles |-> DefaultStyles(type)]

\* measureElements() numbers the elements in document order from 0
Reindex(list) == [i \in 1..Len(list) |-> [list[i] EXCEPT !.index = i - 1]]

Pool ==
  { Element("p", 160, 50, 130, 20, "a"),
    Element("p", 140, 56, 30, 20, "b"),
    Element("img", 100, 62, 30, 20, ""),
    Element("h1", 100, 50, 129, 90, "T"),
    Element("p", 150, 56, 129, 20, "c"),
    Element("column", 100, 50, 300, 200, ""),
    Element("p", 100, 200, 30, 10, "z"),
    Element("img", 160, 50, 30, 20, "pic") }

ListsOver(S, n) == UNION {[1..k -> S] : k \in 0..n}

\* Five text elements of one column; only the third changes width by >= 100
FiveTextScenario ==
  Reindex(<< Element("p", 100, 100, 300, 40, "one"),
             Element("p", 100, 150, 300, 40, "two"),
             Element("p", 100, 200, 400, 40, "three"),
             Element("p", 100, 250, 400, 40, "four"),
             Element("p", 100, 300, 400, 40, "five") >>)

\* One h1 followed in the same column by three body paragraphs, 30px gaps;
\* the heading's computed weight and colour vary
EndToEndWeights == {"700", "400", "bold"}

EndToEndColors == {"rgb(17, 24, 39)", "rgba(0, 0, 0, 0.5)"}

EndToEndScenario(weight, color) ==
  Reindex(<< [Element("h1", 100, 50, 800, 90, "Q1 Report")
                EXCEPT !.styles.fontWeight = weight, !.styles.color = color],
             Element("p", 100, 170, 800, 60, "first"),
             Element("p", 100, 260, 790, 60, "second"),
             Element("p", 100, 350, 800, 60, "third") >>)

\* x = 100, 140, 160, 150: the bucketing thresholds
BucketScenario ==
  Reindex(<< Element("p", 100, 100, 30, 20, "a"),
             Element("p", 140, 300, 30, 20, "b"),
             Element("p", 160, 500, 30, 20, "c"),
             Element("p", 150, 700, 30, 20, "d") >>)

\* n pillars of decreasing height side by side, n bars that each start at
\* the left edge of their pillar and are pushed below it, and one paragraph
\* that overlaps every bar but no pillar: the paragraph is pushed below the
\* bars one pass at a time, from the highest bar to the lowest.
StaircaseScenario(n) ==
  Reindex(
    [k \in 1..n |-> Element("img", 10 * (k - 1), 0, 10, 20 + 30 * (n - k), "")]
    \o [k \in 1..n |-> Element("img", 10 * (k - 1), 10, 10 * (n - k) + 20, 20, "")]
    \o << Element("p", 10 * n, 20, 50, 20, "last") >>)

EndToEndScenarios ==
  {EndToEndScenario(w, c) : w \in EndToEndWeights, c \in EndToEndColors}

\* A pillar pushes the bar that starts at its left edge below itself; the
\* block to the right of the pillar overlaps the bar but not the pillar
PushedPastScenario ==
  Reindex(<< Element("img", 0, 0, 10, 40, "pillar"),
             Element("img", 0, 10, 50, 20, "bar"),
             Element("img", 20, 30, 30, 20, "block") >>)

\* Rectangles that share an edge: "below" starts where "box" ends, "right"
\* starts at the right edge of "box" and of "below"; "bar" is pushed below
\* "pillar" to the y at which "above" ends
TouchingScenario ==
  Reindex(<< Element("img", 100, 50, 30, 20, "box"),
             Element("img", 100, 82, 30, 20, "below"),
             Element("img", 130, 60, 30, 20, "right"),
             Element("img", 1000, 0, 10, 20, "pillar"),
             Element("img", 1000, 10, 50, 20, "bar"),
             Element("img", 1020, 16, 30, 22, "above") >>)

\* The bucket anchored at x = 140 receives x = 91 and x = 189, 98px apart;
\* x = 190 and x = 90 are 50px from the anchor and open buckets of their own
WideBucketScenario ==
  Reindex(<< Element("p", 140, 100, 30, 20, "anchor"),
             Element("p", 91, 200, 30, 20, "left"),
             Element("p", 189, 300, 30, 20, "right"),
             Element("p", 190, 400, 30, 20, "east"),
             Element("p", 90, 500, 30, 20, "west") >>)

\* n blocks of one column whose measured boxes start 1px below each other:
\* each is pushed below all the blocks before it in a single pass
LadderScenario(n) ==
  Reindex([k \in 1..n |-> Element("img", 0, k - 1, 30, 20, "r")])

\* Two columns (x = 100 and x = 600) of three rows 100px apart; the groups
\* of a row start dl and dr px below the row's y; the page reports one
\* column after the other
TwoColumnOffsets == {<<0, 0>>, <<0, 9>>, <<9, 0>>}

TwoColumnScenario(dl, dr, leftFirst) ==
  LET left == [r \in 1..3 |->
                 Element("p", 100, 100 * r + dl, IF r = 2 THEN 450 ELSE 300, 40,
                         <<"L1", "L2", "L3">>[r])]
      right == [r \in 1..3 |->
                  Element("p", 600, 100 * r + dr, IF r = 2 THEN 450 ELSE 300, 40,
                          <<"R1", "R2", "R3">>[r])]
  IN  Reindex(IF leftFirst THEN left \o right ELSE right \o left)

TwoColumnScenarios ==
  {TwoColumnScenario(d[1], d[2], lf) : d \in TwoColumnOffsets, lf \in BOOLEAN}

Scenarios ==
  { FiveTextScenario, BucketScenario, WideBucketScenario, PushedPastScenario,
    TouchingScenario,
    StaircaseScenario(MAX_ATTEMPTS), StaircaseScenario(MAX_ATTEMPTS + 1),
    LadderScenario(MAX_ATTEMPTS + 1), LadderScenario(MAX_ATTEMPTS + 2) }
    \cup EndToEndScenarios \cup TwoColumnScenarios

\* The decks (one measurement list per slide) the model exports
Decks ==
  {<<Reindex(l)>> : l \in ListsOver(Pool, MaxLen)}
    \cup {<<s>> : s \in Scenarios}
    \cup {<<Reindex(l), Reindex(l)>> : l \in ListsOver(Pool, MaxRepeatLen)}
    \cup {<<Reindex(<<a>>), Reindex(<<b>>)>> : a \in Pool, b \in Pool}
    \cup {<<StaircaseScenario(MAX_ATTEMPTS + 1), FiveTextScenario>>}

\* ------------------------------------------------------------------------
\* State
\* ------------------------------------------------------------------------
VARIABLES
  slides,        \* measurements reported for each slide of the deck
  slideIndex,    \* loop variable of the slide loop (0-based; Len(slides) = done)
  pc,            \* position in the body of the slide loop
  measurements,  \* the current slide's measurement list
  mi,            \* next measurement of the bucket loop (1-based)
  columns,       \* columns: sequence of [x, eles]
  ci,            \* next column of the grouping loop (1-based)
  renderQueue,   \* renderQueue: sequence of RenderGroup
  gi,            \* current group of the placement loop (1-based)
  placedRects,   \* placedRects: sequence of PlacedRect
  cand,          \* locals of the placement loop body: xInch, yInch, wInch,
                 \* hEstInch, overlapFound, attempts
  pptx,          \* slides of the document, each the sequence of its text boxes
  passes,        \* history: iterations of the while loop for the current group
  trail,         \* history: the candidate's y after each of these iterations
  console,       \* messages written with console.warn / console.error
  page,          \* the render page the browser shows: NoPage, or the document's
                 \* fonts, images and window.measurementsReady
  browser,       \* the headless browser: "open" or "closed"
  closes,        \* history: number of calls of browser.close()
  thrown,        \* an awaited call inside the try block has thrown
  result,        \* value returned by exportPresentation: "none" until it returns
  placedLog      \* history: per slide, per group [rect, attempts, passes, trail, boxes]

vars == <<slides, slideIndex, pc, measurements, mi, columns, ci, renderQueue, gi,
          placedRects, cand, pptx, console, passes, trail, placedLog,
          page, browser, closes, thrown, result>>

\* The browser, the outcome of the export and the render page: untouched by
\* the layout of a slide
hostVars == <<page, browser, closes, thrown, result>>

\* No document is loaded in the page
NoPage == [images |-> "none", fonts |-> FALSE, measurementsReady |-> FALSE,
           loaded |-> FALSE]

NoCand == [xInch |-> 0, yInch |-> 0, wInch |-> 0, hEstInch |-> 0,
           overlapFound |-> FALSE, attempts |-> 0]

Init ==
  /\ slides \in Decks
  /\ slideIndex = 0
  /\ pc = "slide"
  /\ measurements = <<>>
  /\ mi = 1
  /\ columns = <<>>
  /\ ci = 1
  /\ renderQueue = <<>>
  /\ gi = 1
  /\ placedRects = <<>>
  /\ cand = NoCand
  /\ pptx = <<>>
  /\ console = <<>>
  /\ passes = 0
  /\ trail = <<>>
  /\ placedLog = <<>>
  /\ page = NoPage
  /\ browser = "open"
  /\ closes = 0
  /\ thrown = FALSE
  /\ result = "none"

\* ------------------------------------------------------------------------
\* The render page (export-render, measure mode)
\* ------------------------------------------------------------------------
\* The document after its inline script has run renderSlide(): the flag is
\* false, the fonts are loading, and waitForImages() is pending exactly when
\* the slide has an image area (a background-image element, whose 500 ms
\* timer is then running)
LoadedPage(imageArea) ==
  [images |-> IF imageArea THEN "pending" ELSE "none",
   fonts |-> FALSE, measurementsReady |-> FALSE, loaded |-> TRUE]

\* Both promises of the Promise.all in renderSlide() are resolved
ReadyToSignal(p) == p.fonts /\ p.images # "pending"

\* The reaction of the Promise.all: window.measurementsReady = true
SignalReady(p) == [p EXCEPT !.measurementsReady = ReadyToSignal(p)]

\* document.fonts.ready resolves in the page
FontsReady ==
  /\ page.loaded
  /\ ~page.fonts
  /\ page' = SignalReady([page EXCEPT !.fonts = TRUE])
  /\ UNCHANGED <<slides, slideIndex, pc, measurements, mi, columns, ci, renderQueue, gi,
                 placedRects, cand, pptx, console, passes, trail, placedLog,
                 browser, closes, thrown, result>>

\* The timer of waitForImages() fires: setTimeout gives the delay a lower
\* bound only, so the step may come at any later point of the export
ImagesSettle ==
  /\ page.loaded
  /\ page.images = "pending"
  /\ page' = SignalReady([page EXCEPT !.images = "settled"])
  /\ UNCHANGED <<slides, slideIndex, pc, measurements, mi, columns, ci, renderQueue, gi,
                 placedRects, cand, pptx, console, passes, trail, placedLog,
                 browser, closes, thrown, result>>

\* ------------------------------------------------------------------------
\* Slide loop head: load the page, wait, measure; add the slide, fresh
\* columns and queue
\* ------------------------------------------------------------------------
\* await page.goto(url, {waitUntil: "domcontentloaded"})
Goto ==
  /\ pc = "slide"
  /\ slideIndex < Len(slides)
  /\ \E imageArea \in BOOLEAN : page' = LoadedPage(imageArea)
  /\ pc' = "selector"
  /\ UNCHANGED <<slides, slideIndex, measurements, mi, columns, ci, renderQueue, gi,
                 placedRects, cand, pptx, console, passes, trail, placedLog,
                 browser, closes, thrown, result>>

\* await page.waitForSelector('#slide-content')
WaitForSelector ==
  /\ pc = "selector"
  /\ pc' = "fonts"
  /\ UNCHANGED <<slides, slideIndex, measurements, mi, columns, ci, renderQueue, gi,
                 placedRects, cand, pptx, console, passes, trail, placedLog,
                 page, browser, closes, thrown, result>>

\* await page.evaluate(() => document.fonts?.ready)
WaitFonts ==
  /\ pc = "fonts"
  /\ page.fonts
  /\ pc' = "sleep"
  /\ UNCHANGED <<slides, slideIndex, measurements, mi, columns, ci, renderQueue, gi,
                 placedRects, cand, pptx, console, passes, trail, placedLog,
                 page, browser, closes, thrown, result>>

\* await new Promise((resolve) => setTimeout(resolve, 1000))
Sleep ==
  /\ pc = "sleep"
  /\ pc' = "measure"
  /\ UNCHANGED <<slides, slideIndex, measurements, mi, columns, ci, renderQueue, gi,
                 placedRects, cand, pptx, console, passes, trail, placedLog,
                 page, browser, closes, thrown, result>>

\* Mutant of Throw: an exception reaches the catch without the finally block
Throw_SkipsFinally ==
  /\ \/ pc = "slide" /\ slideIndex < Len(slides)
     \/ pc \in {"selector", "measure"}
  /\ thrown' = TRUE
  /\ pc' = "catch"
  /\ UNCHANGED <<slides, slideIndex, measurements, mi, columns, ci, renderQueue, gi,
                 placedRects, cand, pptx, console, passes, trail, placedLog,
                 page, browser, closes, result>>

\* page.goto, page.waitForSelector or the page.evaluate of the measurement
\* rejects: control leaves the try block
Throw ==
  /\ \/ pc = "slide" /\ slideIndex < Len(slides)
     \/ pc \in {"selector", "measure"}
  /\ thrown' = TRUE
  /\ pc' = "finally"
  /\ UNCHANGED <<slides, slideIndex, measurements, mi, columns, ci, renderQueue, gi,
                 placedRects, cand, pptx, console, passes, trail, placedLog,
                 page, browser, closes, result>>

\* Mutant of BeginSlide: columns is not a fresh array for each slide
BeginSlide_KeepColumns ==
  /\ pc = "measure"
  /\ measurements' = slides[slideIndex + 1]
  /\ page' = NoPage
  /\ pptx' = Append(pptx, <<>>)
  /\ placedLog' = Append(placedLog, <<>>)
  /\ renderQueue' = <<>>
  /\ mi' = 1
  /\ pc' = "bucket"
  /\ UNCHANGED <<browser, closes, thrown, result, console, slides, slideIndex, ci, gi,
                 placedRects, cand, passes, trail, columns>>

BeginSlide ==
  /\ pc = "measure"
  /\ measurements' = slides[slideIndex + 1]
  /\ page' = NoPage
  /\ pptx' = Append(pptx, <<>>)
  /\ placedLog' = Append(placedLog, <<>>)
  /\ columns' = <<>>
  /\ renderQueue' = <<>>
  /\ mi' = 1
  /\ pc' = "bucket"
  /\ UNCHANGED <<browser, closes, thrown, result, console, slides, slideIndex, ci, gi,
                 placedRects, cand, passes, trail>>

\* ------------------------------------------------------------------------
\* 1. Bucket
\* ------------------------------------------------------------------------
\* Mutant of FindColumn: the threshold compared with <= instead of <
FindColumn_Inclusive(cols, m) ==
  IF \E k \in 1..Len(cols) : Abs(cols[k].x - m.x) <= BUCKET_THRESHOLD
    THEN CHOOSE k \in 1..Len(cols) :
           /\ Abs(cols[k].x - m.x) <= BUCKET_THRESHOLD
           /\ \A j \in 1..(k - 1) : ~(Abs(cols[j].x - m.x) <= BUCKET_THRESHOLD)
    ELSE 0

\* columns.find(c => Math.abs(c.x - m.x) < 50): index of the first match, 0 if none
FindColumn(cols, m) ==
  IF \E k \in 1..Len(cols) : Abs(cols[k].x - m.x) < BUCKET_THRESHOLD
    THEN CHOOSE k \in 1..Len(cols) :
           /\ Abs(cols[k].x - m.x) < BUCKET_THRESHOLD
           /\ \A j \in 1..(k - 1) : ~(Abs(cols[j].x - m.x) < BUCKET_THRESHOLD)
    ELSE 0

\* Mutant of BucketOne: the bucket found takes the x of the element it receives
BucketOne_MovesAnchor(cols, m) ==
  IF m.type \in ignorableTypes THEN cols
  ELSE LET k == FindColumn(cols, m)
       IN  IF k > 0
             THEN [cols EXCEPT ![k].eles = Append(@, m), ![k].x = m.x]
             ELSE Append(cols, [x |-> m.x, eles |-> <<m>>])

BucketOne(cols, m) ==
  IF m.type \in ignorableTypes THEN cols
  ELSE LET k == FindColumn(cols, m)
       IN  IF k > 0
             THEN [cols EXCEPT ![k].eles = Append(@, m)]
             ELSE Append(cols, [x |-> m.x, eles |-> <<m>>])

Bucket ==
  /\ pc = "bucket"
  /\ mi <= Len(measurements)
  /\ columns' = BucketOne(columns, measurements[mi])
  /\ mi' = mi + 1
  /\ UNCHANGED <<hostVars, console, slides, slideIndex, pc, measurements, ci, renderQueue, gi,
                 placedRects, cand, pptx, passes, trail, placedLog>>

BucketDone ==
  /\ pc = "bucket"
  /\ mi > Len(measurements)
  /\ ci' = 1
  /\ pc' = "group"
  /\ UNCHANGED <<hostVars, console, slides, slideIndex, measurements, mi, columns, renderQueue, gi,
                 placedRects, cand, pptx, passes, trail, placedLog>>

\* ------------------------------------------------------------------------
\* 2. Form groups
\* ------------------------------------------------------------------------
\* pushGroup: the RenderGroup of a non-empty run of elements
\* Mutant of GroupWidth: the maximum is taken over every member
GroupWidth_AllMembers(elements) ==
  MaxOf({elements[i].width : i \in 1..Len(elements)})

GroupWidth(elements) ==
  LET pElements == SelectSeq(elements, LAMBDA e : e.type \in paragraphTypes)
      refElements == IF Len(pElements) > 0 THEN pElements ELSE elements
  IN  MaxOf({refElements[i].width : i \in 1..Len(refElements)})

GroupHeight(elements) ==
  LET first == elements[1]
      last == elements[Len(elements)]
  IN  Max((last.y + last.height) - first.y, MIN_HWEB)

pushGroup(elements, queue) ==
  IF Len(elements) = 0 THEN queue
  ELSE Append(queue, [elements |-> elements,
                      x |-> elements[1].x,
                      y |-> elements[1].y,
                      w |-> GroupWidth(elements),
                      hWeb |-> GroupHeight(elements)])

\* Mutant of JoinsGroup: the width delta compared with <= instead of <
JoinsGroup_Inclusive(m, last) == Abs(m.width - last.width) <= WIDTH_DELTA

\* Mutant of JoinsGroup: a change of element type also closes the group
JoinsGroup_SameType(m, last) ==
  Abs(m.width - last.width) < WIDTH_DELTA /\ m.type = last.type

\* wDiff < 100: the element extends the open group
JoinsGroup(m, last) == Abs(m.width - last.width) < WIDTH_DELTA

\* Mutant of GroupStep: a non-text element is pushed as its own group but
\* the open group is neither pushed nor closed
GroupStep_NoClose(st, m) ==
  IF m.type \notin textTypes
    THEN [cur |-> st.cur, queue |-> pushGroup(<<m>>, st.queue)]
    ELSE IF Len(st.cur) > 0
           THEN IF JoinsGroup(m, st.cur[Len(st.cur)])
                  THEN [cur |-> Append(st.cur, m), queue |-> st.queue]
                  ELSE [cur |-> <<m>>, queue |-> pushGroup(st.cur, st.queue)]
           ELSE [cur |-> <<m>>, queue |-> st.queue]

\* Mutant of GroupStep: a non-text element joins the open group and closes it
GroupStep_NonTextJoins(st, m) ==
  IF m.type \notin textTypes
    THEN [cur |-> <<>>, queue |-> pushGroup(Append(st.cur, m), st.queue)]
    ELSE IF Len(st.cur) > 0
           THEN IF JoinsGroup(m, st.cur[Len(st.cur)])
                  THEN [cur |-> Append(st.cur, m), queue |-> st.queue]
                  ELSE [cur |-> <<m>>, queue |-> pushGroup(st.cur, st.queue)]
           ELSE [cur |-> <<m>>, queue |-> st.queue]

\* One iteration of the loop over col.eles: st = [cur, queue]
GroupStep(st, m) ==
  IF m.type \notin textTypes
    THEN [cur |-> <<>>, queue |-> pushGroup(<<m>>, pushGroup(st.cur, st.queue))]
    ELSE IF Len(st.cur) > 0
           THEN IF JoinsGroup(m, st.cur[Len(st.cur)])
                  THEN [cur |-> Append(st.cur, m), queue |-> st.queue]
                  ELSE [cur |-> <<m>>, queue |-> pushGroup(st.cur, st.queue)]
           ELSE [cur |-> <<m>>, queue |-> st.queue]

\* Mutant of GroupColumn: the group still open at the end is not flushed
GroupColumn_NoFlush(eles, queue) ==
  LET walk[i \in 0..Len(eles)] ==
        IF i = 0 THEN [cur |-> <<>>, queue |-> queue]
        ELSE GroupStep(walk[i - 1], eles[i])
  IN  walk[Len(eles)].queue

\* The loop over one column's sorted elements, then the final flush
GroupColumn(eles, queue) ==
  LET walk[i \in 0..Len(eles)] ==
        IF i = 0 THEN [cur |-> <<>>, queue |-> queue]
        ELSE GroupStep(walk[i - 1], eles[i])
      end == walk[Len(eles)]
  IN  pushGroup(end.cur, end.queue)

FormGroups ==
  /\ pc = "group"
  /\ ci <= Len(columns)
  /\ LET sorted == ArraySort(columns[ci].eles, "y")
     IN  /\ columns' = [columns EXCEPT ![ci].eles = sorted]
         /\ renderQueue' = GroupColumn(sorted, renderQueue)
  /\ ci' = ci + 1
  /\ UNCHANGED <<hostVars, console, slides, slideIndex, pc, measurements, mi, gi, placedRects, cand,
                 pptx, passes, trail, placedLog>>

\* ------------------------------------------------------------------------
\* 3. Sort, then place with collision detection
\* ------------------------------------------------------------------------
\* Mutant of SortQueue: placedRects is not a fresh array for each slide
SortQueue_KeepRects ==
  /\ pc = "group"
  /\ ci > Len(columns)
  /\ renderQueue' = ArraySort(renderQueue, "groups")
  /\ gi' = 1
  /\ pc' = "place"
  /\ UNCHANGED <<hostVars, console, slides, slideIndex, measurements, mi, columns, ci, cand, pptx,
                 passes, trail, placedLog, placedRects>>

SortQueue ==
  /\ pc = "group"
  /\ ci > Len(columns)
  /\ renderQueue' = ArraySort(renderQueue, "groups")
  /\ placedRects' = <<>>
  /\ gi' = 1
  /\ pc' = "place"
  /\ UNCHANGED <<hostVars, console, slides, slideIndex, measurements, mi, columns, ci, cand, pptx,
                 passes, trail, placedLog>>

\* Initial position and estimated height of a group, in target units
InitialCandidate(group) ==
  [xInch |-> pxToInchX(group.x),
   yInch |-> pxToInchY(group.y),
   wInch |-> pxToInchX(group.w),
   hEstInch |-> EstimatedHeight(pxToInchY(group.hWeb)),
   overlapFound |-> TRUE,
   attempts |-> 0]

BeginGroup ==
  /\ pc = "place"
  /\ gi <= Len(renderQueue)
  /\ cand' = InitialCandidate(renderQueue[gi])
  /\ passes' = 0
  /\ trail' = <<>>
  /\ pc' = "collide"
  /\ UNCHANGED <<hostVars, console, slides, slideIndex, measurements, mi, columns, ci, renderQueue, gi,
                 placedRects, pptx, placedLog>>

xOverlap(c, rect) == c.xInch < rect.x + rect.w /\ c.xInch + c.wInch > rect.x

\* Mutant of yOverlap: touching edges count as overlapping
yOverlap_Inclusive(c, rect) ==
  c.yInch <= rect.y + rect.h /\ c.yInch + c.hEstInch >= rect.y

yOverlap(c, rect) == c.yInch < rect.y + rect.h /\ c.yInch + c.hEstInch > rect.y

\* Mutant of PushTarget: the rect's height is left out
PushTarget_FromTop(rect) == rect.y + PADDING

\* Mutant of PushTarget: the padding is left out
PushTarget_NoPadding(rect) == rect.y + rect.h

\* Bottom of the colliding rect + 0.1 inch padding
PushTarget(rect) == rect.y + rect.h + PADDING

\* Mutant of CheckRect: a vertical overlap alone pushes the candidate
CheckRect_IgnoreX(c, rect) ==
  IF yOverlap(c, rect) /\ PushTarget(rect) > c.yInch
    THEN [c EXCEPT !.yInch = PushTarget(rect), !.overlapFound = TRUE]
    ELSE c

\* Body of the for loop over placedRects for one rect
CheckRect(c, rect) ==
  IF xOverlap(c, rect) /\ yOverlap(c, rect) /\ PushTarget(rect) > c.yInch
    THEN [c EXCEPT !.yInch = PushTarget(rect), !.overlapFound = TRUE]
    ELSE c

\* Mutant of OnePass: every push counts as an attempt
OnePass_CountsPushes(c, rects) ==
  LET scan[i \in 0..Len(rects)] ==
        IF i = 0 THEN [c EXCEPT !.overlapFound = FALSE]
        ELSE LET prev == scan[i - 1]
                 next == CheckRect(prev, rects[i])
             IN  IF next.yInch # prev.yInch
                   THEN [next EXCEPT !.attempts = @ + 1] ELSE next
  IN  scan[Len(rects)]

\* Mutant of OnePass: the for loop is left at the first push
OnePass_BreakAfterPush(c, rects) ==
  LET scan[i \in 0..Len(rects)] ==
        IF i = 0 THEN [c EXCEPT !.overlapFound = FALSE]
        ELSE LET prev == scan[i - 1]
             IN  IF prev.overlapFound THEN prev ELSE CheckRect(prev, rects[i])
      after == scan[Len(rects)]
  IN  IF after.overlapFound THEN [after EXCEPT !.attempts = @ + 1] ELSE after

\* One iteration of the while loop: the for loop, then the attempt count
OnePass(c, rects) ==
  LET scan[i \in 0..Len(rects)] ==
        IF i = 0 THEN [c EXCEPT !.overlapFound = FALSE]
        ELSE CheckRect(scan[i - 1], rects[i])
      after == scan[Len(rects)]
  IN  IF after.overlapFound THEN [after EXCEPT !.attempts = @ + 1] ELSE after

\* Mutant of LoopContinues: the loop gives up one attempt early
LoopContinues_OneLess(c) == c.overlapFound /\ c.attempts < MAX_ATTEMPTS - 1

\* Mutant of LoopContinues: no bound on the attempts
LoopContinues_Unbounded(c) == c.overlapFound

LoopContinues(c) == c.overlapFound /\ c.attempts < MAX_ATTEMPTS

CollisionPass ==
  /\ pc = "collide"
  /\ LoopContinues(cand)
  /\ cand' = OnePass(cand, placedRects)
  /\ passes' = passes + 1
  /\ trail' = Append(trail, cand'.yInch)
  /\ UNCHANGED <<hostVars, console, slides, slideIndex, pc, measurements, mi, columns, ci, renderQueue,
                 gi, placedRects, pptx, placedLog>>

\* ------------------------------------------------------------------------
\* Style mapping
\* ------------------------------------------------------------------------
\* styles.fontSize.match(/(\d+)/) and parseInt of the match: <<n>>, or NoMatch
FontSizeDigits(s) ==
  CASE s = "72px" -> <<72>>
    [] s = "36px" -> <<36>>
    [] s = "24px" -> <<24>>
    [] s = "18px" -> <<18>>
    [] OTHER -> NoMatch

fontSizePx(styles) ==
  IF FontSizeDigits(styles.fontSize) = NoMatch THEN DEFAULT_FONT_PX
  ELSE FontSizeDigits(styles.fontSize)[1]

\* Math.round(fontSizePx * 0.55)
fontSizePt(styles) == (fontSizePx(styles) * 11 + 10) \div 20

\* parseInt(styles.fontWeight, 10): <<n>>, or NoMatch for NaN
WeightNumber(s) ==
  CASE s = "400" -> <<400>>
    [] s = "500" -> <<500>>
    [] s = "600" -> <<600>>
    [] s = "700" -> <<700>>
    [] OTHER -> NoMatch

isBold(styles) ==
  \/ styles.fontWeight = "bold"
  \/ /\ WeightNumber(styles.fontWeight) # NoMatch
     /\ WeightNumber(styles.fontWeight)[1] >= BOLD_WEIGHT

\* styles.color.match(/rgb\((\d+),\s*(\d+),\s*(\d+)\)/)
RgbMatch(s) ==
  CASE s = "rgb(17, 24, 39)" -> <<17, 24, 39>>
    [] s = "rgb(31, 41, 55)" -> <<31, 41, 55>>
    [] s = "rgb(255, 0, 0)" -> <<255, 0, 0>>
    [] OTHER -> NoMatch

HexDigits == <<"0", "1", "2", "3", "4", "5", "6", "7", "8", "9",
               "a", "b", "c", "d", "e", "f">>

\* n.toString(16).padStart(2, "0") for 0 <= n <= 255
Hex2(n) == HexDigits[(n \div 16) + 1] \o HexDigits[(n % 16) + 1]

\* The rgb triple as hex when the colour parses, the given default otherwise
ParsedColor(styles, default) ==
  LET m == RgbMatch(styles.color)
  IN  IF m # NoMatch THEN Hex2(m[1]) \o Hex2(m[2]) \o Hex2(m[3]) ELSE default

\* (styles.textAlign as TextAlign) || "left"
Align(styles) == IF styles.textAlign = "" THEN "left" ELSE styles.textAlign

\* text.trim()
Trim(text) == IF text \in {"", " ", "  "} THEN "" ELSE text

\* addMeasuredElement: the text boxes it adds to the slide (none or one)
addMeasuredElement(m) ==
  LET box == [kind |-> "element",
              x |-> pxToInchX(m.x), y |-> pxToInchY(m.y),
              w |-> pxToInchX(m.width), h |-> <<pxToInchY(m.height)>>,
              align |-> Align(m.styles)]
      Run(bold, color) ==
        [text |-> m.text, fontSize |-> fontSizePt(m.styles), bold |-> bold,
         color |-> color, bullet |-> FALSE]
  IN  CASE m.type \in headingTypes ->
             << box @@ [valign |-> "middle",
                        runs |-> <<Run(TRUE, themeColors.accent)>>] >>
        [] m.type \in {"p", "text"} ->
             << box @@ [valign |-> "top",
                        runs |-> <<Run(isBold(m.styles),
                                       ParsedColor(m.styles, themeColors.text))>>] >>
        [] OTHER ->
             IF Trim(m.text) # ""
               THEN << box @@ [valign |-> "top",
                               runs |-> <<Run(FALSE,
                                              ParsedColor(m.styles, themeColors.text))>>] >>
               ELSE <<>>

\* One entry of textObjects
TextObject(m) ==
  [text |-> m.text,
   fontSize |-> fontSizePt(m.styles),
   bold |-> isBold(m.styles),
   color |-> ParsedColor(m.styles, IF m.type \in headingTypes
                                     THEN themeColors.accent
                                     ELSE themeColors.text),
   bullet |-> (m.type = "bullet-item")]

\* slide.addText(textObjects, ...) at the collision-adjusted position
TextGroupBox(group, c) ==
  [kind |-> "group",
   x |-> c.xInch, y |-> c.yInch, w |-> c.wInch, h |-> <<>>,
   align |-> Align(group.elements[1].styles),
   valign |-> "top",
   runs |-> [i \in 1..Len(group.elements) |-> TextObject(group.elements[i])]]

\* Mutant of RenderGroup: the non-text element is rendered at the adjusted y
RenderGroup_Adjusted(group, c) ==
  LET singleEl == group.elements[1]
      added == addMeasuredElement(singleEl)
  IN  (IF Len(group.elements) = 1 /\ singleEl.type \notin textTypes
         THEN [i \in 1..Len(added) |-> [added[i] EXCEPT !.y = c.yInch]] ELSE <<>>)
      \o (IF singleEl.type \in textTypes THEN <<TextGroupBox(group, c)>> ELSE <<>>)

\* The "Render" part of the placement loop body: the boxes added for a group
RenderGroup(group, c) ==
  LET singleEl == group.elements[1]
  IN  (IF Len(group.elements) = 1 /\ singleEl.type \notin textTypes
         THEN addMeasuredElement(singleEl) ELSE <<>>)
      \o (IF singleEl.type \in textTypes THEN <<TextGroupBox(group, c)>> ELSE <<>>)

\* Register this placement
PlacedRect(c) == [x |-> c.xInch, y |-> c.yInch, w |-> c.wInch, h |-> c.hEstInch]

\* Mutant of RegisterAndRender: leaving the loop with the overlap flag still
\* set writes a warning
RegisterAndRender_Warns ==
  /\ pc = "collide"
  /\ ~LoopContinues(cand)
  /\ placedRects' = Append(placedRects, PlacedRect(cand))
  /\ pptx' = [pptx EXCEPT ![Len(pptx)] = @ \o RenderGroup(renderQueue[gi], cand)]
  /\ placedLog' = [placedLog EXCEPT ![Len(placedLog)] =
                     Append(@, [rect |-> PlacedRect(cand),
                                attempts |-> cand.attempts,
                                passes |-> passes,
                                trail |-> trail,
                                boxes |-> Len(RenderGroup(renderQueue[gi], cand))])]
  /\ console' = IF cand.overlapFound
                  THEN Append(console, "collision unresolved") ELSE console
  /\ gi' = gi + 1
  /\ pc' = "place"
  /\ UNCHANGED <<hostVars, slides, slideIndex, measurements, mi, columns, ci,
                 renderQueue, cand, passes, trail>>

RegisterAndRender ==
  /\ pc = "collide"
  /\ ~LoopContinues(cand)
  /\ placedRects' = Append(placedRects, PlacedRect(cand))
  /\ pptx' = [pptx EXCEPT ![Len(pptx)] = @ \o RenderGroup(renderQueue[gi], cand)]
  /\ placedLog' = [placedLog EXCEPT ![Len(placedLog)] =
                     Append(@, [rect |-> PlacedRect(cand),
                                attempts |-> cand.attempts,
                                passes |-> passes,
                                trail |-> trail,
                                boxes |-> Len(RenderGroup(renderQueue[gi], cand))])]
  /\ gi' = gi + 1
  /\ pc' = "place"
  /\ UNCHANGED <<hostVars, console, slides, slideIndex, measurements, mi, columns, ci, renderQueue,
                 cand, passes, trail>>

\* End of the slide loop body
EndSlide ==
  /\ pc = "place"
  /\ gi > Len(renderQueue)
  /\ slideIndex' = slideIndex + 1
  /\ pc' = "slide"
  /\ UNCHANGED <<hostVars, console, slides, measurements, mi, columns, ci, renderQueue, gi,
                 placedRects, cand, pptx, passes, trail, placedLog>>

\* The slide loop ends
Finish ==
  /\ pc = "slide"
  /\ slideIndex >= Len(slides)
  /\ pc' = "finally"
  /\ UNCHANGED <<hostVars, console, slides, slideIndex, measurements, mi, columns, ci, renderQueue,
                 gi, placedRects, cand, pptx, passes, trail, placedLog>>

\* finally { await browser.close(); }
CloseBrowser ==
  /\ pc = "finally"
  /\ browser' = "closed"
  /\ closes' = closes + 1
  /\ pc' = IF thrown THEN "catch" ELSE "write"
  /\ UNCHANGED <<slides, slideIndex, measurements, mi, columns, ci, renderQueue, gi,
                 placedRects, cand, pptx, console, passes, trail, placedLog,
                 page, thrown, result>>

\* pptx.write and return { success: true, ... }
WriteAndReturn ==
  /\ pc = "write"
  /\ result' = "success"
  /\ pc' = "done"
  /\ UNCHANGED <<slides, slideIndex, measurements, mi, columns, ci, renderQueue, gi,
                 placedRects, cand, pptx, console, passes, trail, placedLog,
                 page, browser, closes, thrown>>

\* catch (error): console.error and return { success: false, ... }
CatchError ==
  /\ pc = "catch"
  /\ console' = Append(console, "Error exporting presentation:")
  /\ result' = "error"
  /\ pc' = "failed"
  /\ UNCHANGED <<slides, slideIndex, measurements, mi, columns, ci, renderQueue, gi,
                 placedRects, cand, pptx, passes, trail, placedLog,
                 page, browser, closes, thrown>>

Next ==
  \/ FontsReady
  \/ ImagesSettle
  \/ Goto
  \/ WaitForSelector
  \/ WaitFonts
  \/ Sleep
  \/ Throw
  \/ BeginSlide
  \/ Bucket
  \/ BucketDone
  \/ FormGroups
  \/ SortQueue
  \/ BeginGroup
  \/ CollisionPass
  \/ RegisterAndRender
  \/ EndSlide
  \/ Finish
  \/ CloseBrowser
  \/ WriteAndReturn
  \/ CatchError

Spec == Init /\ [][Next]_vars

\* ------------------------------------------------------------------------
\* Vocabulary of the properties
\* ------------------------------------------------------------------------
\* The axis-aligned intersection test of two rectangles
Intersects(a, b) ==
  /\ a.x < b.x + b.w /\ b.x < a.x + a.w
  /\ a.y < b.y + b.h /\ b.y < a.y + a.h

\* The placement loop of the current slide is running or has finished
Placing == pc \in {"place", "collide"}

\* Every group of the current slide has been placed
SlidePlaced == pc = "place" /\ gi > Len(renderQueue)

\* Every column of the current slide has been grouped
Grouped == Placing \/ (pc = "group" /\ ci > Len(columns))

\* The placement history of the current slide
Log == placedLog[Len(placedLog)]

Indices(elements) == [i \in 1..Len(elements) |-> elements[i].index]

\* Positions <<k, p>> at which m occurs in the columns / in the render queue
InColumns(m) ==
  UNION {{<<k, p>> : p \in {q \in 1..Len(columns[k].eles) : columns[k].eles[q] = m}}
         : k \in 1..Len(columns)}

InGroups(m) ==
  UNION {{<<g, p>> : p \in {q \in 1..Len(renderQueue[g].elements) :
                             renderQueue[g].elements[q] = m}}
         : g \in 1..Len(renderQueue)}

\* C1: whenever groups have been placed, every pair of registered rectangles
\* either does not intersect or its later-placed member left the push loop
\* with the attempt bound exhausted.
C1_NoOverlapUnlessExhausted ==
  Placing =>
    \A i, j \in 1..Len(placedRects) :
      (i < j /\ Intersects(placedRects[i], placedRects[j]))
        => Log[j].attempts = MAX_ATTEMPTS

\* A slide is fully placed, one of its groups was pushed and none overlaps
C1_Witness ==
  /\ SlidePlaced
  /\ Len(placedRects) >= 2
  /\ \E j \in 1..Len(placedRects) :
       Log[j].attempts > 0 /\ Log[j].attempts < MAX_ATTEMPTS
  /\ \A i, j \in 1..Len(placedRects) :
       i < j => ~Intersects(placedRects[i], placedRects[j])

\* C2: the push loop never runs more than 10 passes for a group, and every
\* group the placement loop has gone past owns exactly one registered
\* rectangle (its own x, width and estimated height, at a y not above its
\* initial y), also when the 10 attempts were exhausted.
C2_EveryGroupPlaced ==
  /\ passes <= MAX_ATTEMPTS
  /\ cand.attempts <= passes
  /\ Placing =>
       /\ Len(placedRects) = gi - 1
       /\ Len(Log) = gi - 1
       /\ \A k \in 1..Len(placedRects) :
            /\ Log[k].rect = placedRects[k]
            /\ Log[k].passes <= MAX_ATTEMPTS
            /\ placedRects[k].x = pxToInchX(renderQueue[k].x)
            /\ placedRects[k].w = pxToInchX(renderQueue[k].w)
            /\ placedRects[k].h = EstimatedHeight(pxToInchY(renderQueue[k].hWeb))
            /\ placedRects[k].y >= pxToInchY(renderQueue[k].y)
  /\ SlidePlaced => Len(placedRects) = Len(renderQueue)

\* A group that exhausted the 10 attempts has been registered
C2_Witness ==
  /\ SlidePlaced
  /\ \E k \in 1..Len(placedRects) :
       /\ Log[k].attempts = MAX_ATTEMPTS
       /\ placedRects[k].y > pxToInchY(renderQueue[k].y)

\* C3: every non-structural measurement already bucketed occurs at exactly
\* one position of exactly one bucket and, once the columns are grouped, at
\* exactly one position of exactly one group; a structural measurement
\* occurs in no bucket and no group; buckets and groups hold nothing else.
C3_ContentConserved ==
  /\ pc \in {"bucket", "group", "place", "collide"} =>
       /\ \A i \in 1..(mi - 1) :
            Cardinality(InColumns(measurements[i])) =
              (IF measurements[i].type \in ignorableTypes THEN 0 ELSE 1)
       /\ \A k \in 1..Len(columns) :
            Range(columns[k].eles) \subseteq Range(SubSeq(measurements, 1, mi - 1))
  /\ Grouped =>
       /\ \A i \in 1..Len(measurements) :
            Cardinality(InGroups(measurements[i])) =
              (IF measurements[i].type \in ignorableTypes THEN 0 ELSE 1)
       /\ \A g \in 1..Len(renderQueue) :
            Range(renderQueue[g].elements) \subseteq Range(measurements)

\* A slide with a structural element and a group of two text elements
C3_Witness ==
  /\ Grouped
  /\ \E i \in 1..Len(measurements) : measurements[i].type \in ignorableTypes
  /\ \E g \in 1..Len(renderQueue) : Len(renderQueue[g].elements) >= 2

\* C4: in the sorted render queue, a group placed before another is above it
\* when their y differ by 10 or more, and not to its right when they differ
\* by less.
C4_SortedIsTotalOrder ==
  Placing =>
    \A i, j \in 1..Len(renderQueue) :
      i < j =>
        LET a == renderQueue[i]
            b == renderQueue[j]
        IN  /\ (Abs(a.y - b.y) >= TIE_TOLERANCE => a.y < b.y)
            /\ (Abs(a.y - b.y) < TIE_TOLERANCE => a.x <= b.x)

\* C5: two finished slides of one export that were given the same
\* measurement list have the same text boxes and the same placed rectangles.
C5_SameInputSameOutput ==
  \A s, t \in 1..slideIndex :
    slides[s] = slides[t] => (pptx[s] = pptx[t] /\ placedLog[s] = placedLog[t])

\* The same list was exported twice, with a push and at least one text box
C5_Witness ==
  /\ pc = "done"
  /\ Len(slides) = 2
  /\ slides[1] = slides[2]
  /\ Len(pptx[2]) >= 1
  /\ \E k \in 1..Len(placedLog[2]) : placedLog[2][k].attempts > 0

\* The group of the render queue that holds element m
GroupOf(m) == CHOOSE g \in 1..Len(renderQueue) : m \in Range(renderQueue[g].elements)

\* Columns whose elements have been sorted and grouped
GroupedColumns == IF pc = "group" THEN 1..(ci - 1)
                  ELSE IF Placing THEN 1..Len(columns) ELSE {}

\* C6: in a grouped column, two text elements adjacent in ascending y share
\* a group exactly when their widths differ by less than 100; the five-text
\* scenario yields the groups {1,2} and {3,4,5}.
C6_WidthSplit ==
  /\ \A k \in GroupedColumns :
       \A p \in 1..(Len(columns[k].eles) - 1) :
         LET a == columns[k].eles[p]
             b == columns[k].eles[p + 1]
         IN  (a.type \in textTypes /\ b.type \in textTypes) =>
               /\ a.y <= b.y
               /\ (GroupOf(a) = GroupOf(b)) <=> (Abs(b.width - a.width) < WIDTH_DELTA)
  /\ (Grouped /\ measurements = FiveTextScenario) =>
       [g \in 1..Len(renderQueue) |-> Indices(renderQueue[g].elements)]
         = << <<0, 1>>, <<2, 3, 4>> >>

\* The five-text scenario has been grouped
C6_Witness ==
  /\ Grouped
  /\ measurements = FiveTextScenario
  /\ Len(renderQueue) = 2

\* The element that opened bucket k: the first reported of its elements
Opener(k) ==
  CHOOSE e \in Range(columns[k].eles) :
    \A f \in Range(columns[k].eles) : e.index <= f.index

\* C7: every element lies in the first-created bucket whose anchor is less
\* than 50 from its x; a bucket's anchor is the x of the element that opened
\* it and is 50 or more from every earlier anchor; buckets stay in creation
\* order; x = 100, 140, 160, 150 gives the buckets {100, 140} and {160, 150}.
C7_BucketThreshold ==
  /\ pc \in {"bucket", "group", "place", "collide"} =>
       \A k \in 1..Len(columns) :
         /\ columns[k].x = Opener(k).x
         /\ \A j \in 1..(k - 1) :
              /\ Abs(columns[j].x - columns[k].x) >= BUCKET_THRESHOLD
              /\ Opener(j).index < Opener(k).index
         /\ \A e \in Range(columns[k].eles) :
              /\ Abs(columns[k].x - e.x) < BUCKET_THRESHOLD
              /\ \A j \in 1..(k - 1) : Abs(columns[j].x - e.x) >= BUCKET_THRESHOLD
  /\ (Grouped /\ measurements = BucketScenario) =>
       [k \in 1..Len(columns) |-> [x |-> columns[k].x, eles |-> Indices(columns[k].eles)]]
         = << [x |-> 100, eles |-> <<0, 1>>], [x |-> 160, eles |-> <<2, 3>>] >>

\* A bucket holds x = 100 and x = 140 and a later bucket is anchored exactly
\* 50 from it
C7_Witness ==
  /\ pc = "group"
  /\ \E k, l \in 1..Len(columns) :
       /\ k < l
       /\ columns[l].x - columns[k].x = BUCKET_THRESHOLD
       /\ {e.x : e \in Range(columns[k].eles)} = {100, 140}

\* The first two groups of the queue start at the same pixel y, overlap
\* horizontally, and both have been placed
SameRowPair ==
  /\ Placing
  /\ Len(placedRects) >= 2
  /\ renderQueue[1].y = renderQueue[2].y
  /\ placedRects[1].x < placedRects[2].x + placedRects[2].w
  /\ placedRects[2].x < placedRects[1].x + placedRects[1].w

\* C8 as claimed: the second group's shift is (first.h + 0.1) - second.y
C8_ShiftAsClaimed ==
  SameRowPair =>
    placedRects[2].y - pxToInchY(renderQueue[2].y)
      = (placedRects[1].h + PADDING) - pxToInchY(renderQueue[2].y)

\* C8 (amended): the second group is pushed once, to first.y + first.h + 0.1,
\* where it no longer intersects the first; its shift is first.h + 0.1.
C8_ShiftIsHeightPlusPadding ==
  SameRowPair =>
    /\ placedRects[2].y = placedRects[1].y + placedRects[1].h + PADDING
    /\ placedRects[2].y - pxToInchY(renderQueue[2].y) = placedRects[1].h + PADDING
    /\ ~Intersects(placedRects[1], placedRects[2])
    /\ Log[2].attempts = 1

C8_Witness ==
  /\ SameRowPair
  /\ pxToInchY(renderQueue[2].y) > 0
  /\ placedRects[2].y > pxToInchY(renderQueue[2].y)

\* The end-to-end scenario has been exported
EndToEndDone == pc = "done" /\ Len(slides) = 1 /\ slides[1] \in EndToEndScenarios

RunTexts(box) == [i \in 1..Len(box.runs) |-> box.runs[i].text]

C10_OneBoxPerGroup ==
  \A s \in 1..Len(placedLog) :
    /\ \A k \in 1..Len(placedLog[s]) : placedLog[s][k].boxes = 1
    /\ (s <= slideIndex => Len(pptx[s]) = Len(placedLog[s]))

\* The text boxes added to the current slide so far
Commands == pptx[Len(pptx)]

\* Number of text boxes added for the first k groups of the current slide
RECURSIVE BoxesThrough(_)
BoxesThrough(k) == IF k = 0 THEN 0 ELSE BoxesThrough(k - 1) + Log[k].boxes

\* The group of the sorted queue whose rendering added command c
OwnerOf(c) ==
  CHOOSE k \in 1..Len(Log) : BoxesThrough(k - 1) < c /\ c <= BoxesThrough(k)

\* C11 as claimed: command k of the slide was added by the k-th group of the
\* sorted render queue, however far groups were pushed.
C11_CommandKIsGroupK ==
  Placing => \A c \in 1..Len(Commands) : OwnerOf(c) = c

\* C12 as claimed: of two placed groups whose rectangles overlap
\* horizontally, the one earlier in the sorted queue has the smaller or
\* equal final y.
C12_EarlierIsNotLower ==
  Placing =>
    \A i, j \in 1..Len(placedRects) :
      (/\ i < j
       /\ placedRects[i].x < placedRects[j].x + placedRects[j].w
       /\ placedRects[j].x < placedRects[i].x + placedRects[i].w)
        => placedRects[i].y <= placedRects[j].y

\* The groups of the queue fall into rows: starting within 10px of each
\* other is transitive, so groups of different rows are 10px or more apart
RowsSeparated ==
  \A a, b, c \in 1..Len(renderQueue) :
    (/\ Abs(renderQueue[a].y - renderQueue[b].y) < TIE_TOLERANCE
     /\ Abs(renderQueue[b].y - renderQueue[c].y) < TIE_TOLERANCE)
      => Abs(renderQueue[a].y - renderQueue[c].y) < TIE_TOLERANCE

\* The first texts of the groups of the queue, in queue order
QueueTexts == [g \in 1..Len(renderQueue) |-> renderQueue[g].elements[1].text]

\* C13: when the groups of a slide fall into rows (starts within 10px of
\* each other inside a row, 10px or more between rows), the queue handed to
\* the placement loop is row-major: a group of a higher row precedes every
\* group of a lower row, and inside a row no group precedes one to its left;
\* the two-column scenarios give L1, R1, L2, R2, L3, R3.
C13_RowMajor ==
  /\ (Placing /\ RowsSeparated) =>
       \A i, j \in 1..Len(renderQueue) :
         i < j =>
           LET a == renderQueue[i]
               b == renderQueue[j]
           IN  /\ (Abs(a.y - b.y) >= TIE_TOLERANCE => a.y < b.y)
               /\ (Abs(a.y - b.y) < TIE_TOLERANCE => a.x <= b.x)
  /\ (Placing /\ measurements \in TwoColumnScenarios) =>
       QueueTexts = <<"L1", "R1", "L2", "R2", "L3", "R3">>

\* A two-column slide reported right column first, whose left groups start
\* 9px below the right groups of their rows, has been sequenced
C13_Witness ==
  /\ Placing
  /\ measurements = TwoColumnScenario(9, 0, FALSE)
  /\ RowsSeparated
  /\ Len(renderQueue) = 6
  /\ renderQueue[1].y > renderQueue[2].y

\* The measured element behind run i of command c of the current slide
ElementOfRun(c, i) == renderQueue[OwnerOf(c)].elements[i]

\* C14 as claimed: every run of a heading element has the accent colour,
\* whatever its measured colour string.
C14_HeadingsAccent ==
  Placing =>
    \A c \in 1..Len(Commands) :
      \A i \in 1..Len(Commands[c].runs) :
        ElementOfRun(c, i).type \in headingTypes
          => Commands[c].runs[i].color = themeColors.accent

\* C15 as claimed: every run of a heading element is bold and its box is
\* vertically centred, whatever its measured weight; a run of a paragraph,
\* text or bullet item is bold exactly when its weight is "bold" or a number
\* of at least 600.
C15_HeadingsBoldCentred ==
  Placing =>
    \A c \in 1..Len(Commands) :
      \A i \in 1..Len(Commands[c].runs) :
        LET m == ElementOfRun(c, i)
        IN  /\ m.type \in headingTypes
                 => (Commands[c].runs[i].bold /\ Commands[c].valign = "middle")
            /\ m.type \in paragraphTypes
                 => (Commands[c].runs[i].bold <=>
                       (\/ m.styles.fontWeight = "bold"
                        \/ /\ WeightNumber(m.styles.fontWeight) # NoMatch
                           /\ WeightNumber(m.styles.fontWeight)[1] >= BOLD_WEIGHT))

\* Group k of slide s left the push loop with the 10 attempts used up
Exhausted(s, k) == placedLog[s][k].attempts = MAX_ATTEMPTS

SlideColumns(ms) ==
  LET walk[i \in 0..Len(ms)] ==
        IF i = 0 THEN <<>> ELSE BucketOne(walk[i - 1], ms[i])
  IN  walk[Len(ms)]

SlideQueue(ms) ==
  LET cols == SlideColumns(ms)
      walk[k \in 0..Len(cols)] ==
        IF k = 0 THEN <<>>
        ELSE GroupColumn(ArraySort(cols[k].eles, "y"), walk[k - 1])
  IN  ArraySort(walk[Len(cols)], "groups")

\* The while loop run to its end from candidate c
RECURSIVE Settle(_, _)
Settle(c, rects) ==
  IF LoopContinues(c) THEN Settle(OnePass(c, rects), rects) ELSE c

Settled(group, rects) == Settle(InitialCandidate(group), rects)

\* The placement loop from group g on, given the rectangles and boxes so far
RECURSIVE PlaceFrom(_, _, _)
PlaceFrom(queue, g, done) ==
  IF g > Len(queue) THEN done
  ELSE LET c == Settled(queue[g], done.rects)
           next == [rects |-> Append(done.rects, PlacedRect(c)),
                    boxes |-> done.boxes \o RenderGroup(queue[g], c)]
       IN  IF Len(next.rects) = g THEN PlaceFrom(queue, g + 1, next) ELSE next

SlideLayout(ms) ==
  PlaceFrom(SlideQueue(ms), 1, [rects |-> <<>>, boxes |-> <<>>])

\* The rectangles registered for slide s, in placement order
RectsOf(s) == [k \in 1..Len(placedLog[s]) |-> placedLog[s][k].rect]

\* C17: bucketing of a slide starts with no columns and an empty queue,
\* placement starts with no placed rectangles, and the text boxes and
\* rectangles of every finished slide that was exported after another one
\* are those its measurements alone give.
C17_NoCrossSlideState ==
  /\ (pc = "bucket" /\ mi = 1) => (columns = <<>> /\ renderQueue = <<>>)
  /\ (pc = "place" /\ gi = 1) => placedRects = <<>>
  /\ \A s \in 2..slideIndex :
       LET alone == SlideLayout(slides[s])
       IN  pptx[s] = alone.boxes /\ RectsOf(s) = alone.rects

\* The second slide of a deck of two different slides was placed unpushed
\* where a rectangle of the first slide lies
C17_Witness ==
  /\ pc = "done"
  /\ Len(slides) = 2
  /\ slides[1] # slides[2]
  /\ Len(pptx[2]) >= 1
  /\ \E j \in 1..Len(placedLog[1]), k \in 1..Len(placedLog[2]) :
       /\ Intersects(placedLog[1][j].rect, placedLog[2][k].rect)
       /\ placedLog[2][k].attempts = 0

\* The render queue holds groups of the current slide
QueueBuilt == pc \in {"group", "place", "collide"}

\* The largest width among the members of e whose type is in types, or
\* among all members when there is none
WidthOver(e, types) ==
  LET ref == {i \in 1..Len(e) : e[i].type \in types}
      over == IF ref # {} THEN ref ELSE 1..Len(e)
  IN  MaxOf({e[i].width : i \in over})

ColumnOf(m) == CHOOSE k \in 1..Len(columns) : m \in Range(columns[k].eles)

PlaceInColumn(m) ==
  CHOOSE p \in 1..Len(columns[ColumnOf(m)].eles) : columns[ColumnOf(m)].eles[p] = m

\* C19: a non-text element is a group of its own; in a grouped bucket, two
\* elements with a non-text element at or between them are never in one
\* group; and before the queue is sorted the groups stand bucket after
\* bucket, those of one bucket in the ascending-y order of their first
\* members.
C19_NonTextClosesGroup ==
  /\ QueueBuilt =>
       \A g \in 1..Len(renderQueue) :
         \A i \in 1..Len(renderQueue[g].elements) :
           renderQueue[g].elements[i].type \notin textTypes
             => Len(renderQueue[g].elements) = 1
  /\ \A k \in GroupedColumns :
       \A p, q \in 1..Len(columns[k].eles) :
         (p < q /\ \E r \in p..q : columns[k].eles[r].type \notin textTypes)
           => GroupOf(columns[k].eles[p]) # GroupOf(columns[k].eles[q])
  /\ pc = "group" =>
       \A g, h \in 1..Len(renderQueue) :
         g < h =>
           LET a == renderQueue[g].elements[1]
               b == renderQueue[h].elements[1]
           IN  /\ ColumnOf(a) <= ColumnOf(b)
               /\ ColumnOf(a) = ColumnOf(b) =>
                    (a.y <= b.y /\ PlaceInColumn(a) < PlaceInColumn(b))

\* A bucket holds, in ascending y, a text element, a non-text element and a
\* text element of a similar width, and has been grouped into three groups
C19_Witness ==
  /\ pc = "group"
  /\ ci > Len(columns)
  /\ \E k \in 1..Len(columns) :
       LET e == columns[k].eles
       IN  /\ Len(e) = 3
           /\ e[1].type \in textTypes
           /\ e[2].type \notin textTypes
           /\ e[3].type \in textTypes
           /\ Abs(e[3].width - e[1].width) < WIDTH_DELTA
           /\ e[1].y < e[2].y /\ e[2].y < e[3].y
           /\ Len(renderQueue) = 3

\* The rectangle of group k of the queue at its initial, unadjusted position
InitialRect(k) == PlacedRect(InitialCandidate(renderQueue[k]))

\* Rectangles a and b share a horizontal edge over a common x range / a
\* vertical edge over a common y range
BottomMeetsTop(a, b) ==
  a.y + a.h = b.y /\ a.x < b.x + b.w /\ b.x < a.x + a.w

RightMeetsLeft(a, b) ==
  a.x + a.w = b.x /\ a.y < b.y + b.h /\ b.y < a.y + a.h

\* C20: a group whose initial rectangle has no interior point in common
\* with any rectangle placed before it (edges may coincide) is registered at
\* its initial y, with no push attempt.
C20_TouchingNotPushed ==
  Placing =>
    \A k \in 1..Len(placedRects) :
      (\A j \in 1..(k - 1) : ~Intersects(InitialRect(k), placedRects[j]))
        => /\ placedRects[k] = InitialRect(k)
           /\ Log[k].attempts = 0

\* Groups were placed unpushed with their top on an earlier rectangle's
\* bottom, their bottom on an earlier one's top, their left on an earlier
\* one's right and their right on an earlier one's left
C20_Witness ==
  /\ SlidePlaced
  /\ \E j, k \in 1..Len(placedRects) :
       j < k /\ Log[k].attempts = 0 /\ BottomMeetsTop(placedRects[j], placedRects[k])
  /\ \E j, k \in 1..Len(placedRects) :
       j < k /\ Log[k].attempts = 0 /\ BottomMeetsTop(placedRects[k], placedRects[j])
  /\ \E j, k \in 1..Len(placedRects) :
       j < k /\ Log[k].attempts = 0 /\ RightMeetsLeft(placedRects[j], placedRects[k])
  /\ \E j, k \in 1..Len(placedRects) :
       j < k /\ Log[k].attempts = 0 /\ RightMeetsLeft(placedRects[k], placedRects[j])

\* The candidate rectangle of group k of the queue at height y
RectAt(k, y) == [InitialRect(k) EXCEPT !.y = y]

\* The y of group k at the start of its i-th pass of the push loop
PassStart(k, i) == IF i = 1 THEN InitialRect(k).y ELSE Log[k].trail[i - 1]

\* The rectangles placed before group k that intersect it at height y
Colliding(k, y) ==
  {j \in 1..(k - 1) : Intersects(RectAt(k, y), placedRects[j])}

\* C21 as claimed: a pass that moves the candidate ends at bottom + 0.1 of
\* the lowest-reaching of the rectangles that intersected it at the start of
\* the pass, and every group is registered after a pass that found it clear.
C21_LowestAtStartAsClaimed ==
  Placing =>
    \A k \in 1..Len(placedRects) :
      /\ Log[k].passes = Log[k].attempts + 1
      /\ \A i \in 1..Len(Log[k].trail) :
           Log[k].trail[i] # PassStart(k, i) =>
             Log[k].trail[i] =
               MaxOf({PushTarget(placedRects[j]) : j \in Colliding(k, PassStart(k, i))})

\* C21 (amended): a pass moves the candidate exactly when a placed rectangle
\* intersects it at the start of the pass; it then ends at bottom + 0.1 of
\* one placed rectangle that overlaps the candidate horizontally, clear of
\* every rectangle examined after that one and at or below the bottom of
\* every rectangle that intersected it at the start; the candidate is
\* re-checked in a further pass, which finds it clear, unless the moving pass
\* was the tenth.
C21_PassEndsBelowLastPusher ==
  Placing =>
    \A k \in 1..Len(placedRects) :
      /\ Len(Log[k].trail) = Log[k].passes
      /\ Log[k].passes = Log[k].attempts + (IF Log[k].attempts < MAX_ATTEMPTS THEN 1 ELSE 0)
      /\ Log[k].attempts < MAX_ATTEMPTS => Colliding(k, placedRects[k].y) = {}
      /\ \A i \in 1..Len(Log[k].trail) :
           LET from == PassStart(k, i)
               to == Log[k].trail[i]
           IN  /\ to >= from
               /\ (to > from) <=> (Colliding(k, from) # {})
               /\ \A j \in Colliding(k, from) : to >= placedRects[j].y + placedRects[j].h
               /\ to > from =>
                    \E j \in 1..(k - 1) :
                      /\ to = placedRects[j].y + placedRects[j].h + PADDING
                      /\ placedRects[j].x < placedRects[k].x + placedRects[k].w
                      /\ placedRects[k].x < placedRects[j].x + placedRects[j].w
                      /\ \A m \in (j + 1)..(k - 1) :
                           ~Intersects(RectAt(k, to), placedRects[m])

\* A group was pushed in one pass below a rectangle that did not intersect
\* it at the start of that pass, and was registered after a clear re-check
C21_Witness ==
  /\ SlidePlaced
  /\ \E k \in 1..Len(placedRects) :
       /\ Log[k].attempts = 1
       /\ Log[k].passes = 2
       /\ \E j \in 1..(k - 1) :
            /\ Log[k].trail[1] = placedRects[j].y + placedRects[j].h + PADDING
            /\ j \notin Colliding(k, InitialRect(k).y)

\* The rectangles registered so far are still registered, unchanged
RectsKept ==
  \A k \in 1..Len(placedRects) :
    k <= Len(placedRects') /\ placedRects'[k] = placedRects[k]

\* The x, w and h of the k-th registered rectangle are the conversions of
\* its group's x, w and 1.6 * hWeb
ConvertedBox(k) ==
  /\ placedRects[k].x * RENDER_WIDTH_PX = renderQueue[k].x * SLIDE_WIDTH_UNITS
  /\ placedRects[k].w * RENDER_WIDTH_PX = renderQueue[k].w * SLIDE_WIDTH_UNITS
  /\ placedRects[k].h * 10 * RENDER_HEIGHT_PX
       = 16 * renderQueue[k].hWeb * SLIDE_HEIGHT_UNITS

\* C22: every registered rectangle has x = group.x * 10/1920,
\* w = group.w * 10/1920 and h = 1.6 * group.hWeb * 5.625/1080 however often
\* the group was pushed, and no step of a slide's placement loop removes or
\* changes a rectangle registered earlier.
C22_OnlyYChanges ==
  /\ [](Placing => \A k \in 1..Len(placedRects) : ConvertedBox(k))
  /\ [][(Placing /\ Placing') => RectsKept]_vars

\* A group that used up the ten attempts and a pushed group with groups
\* registered after it are both registered with converted x, w and h
C22_Witness ==
  /\ SlidePlaced
  /\ \E k \in 1..Len(placedRects) :
       Log[k].attempts = MAX_ATTEMPTS /\ ConvertedBox(k)
  /\ \E k \in 1..(Len(placedRects) - 1) :
       Log[k].attempts >= 1 /\ ConvertedBox(k) /\ placedRects[k] = Log[k].rect

\* The candidate of group k of the queue at height y
CandAt(k, y) == [InitialCandidate(renderQueue[k]) EXCEPT !.yInch = y]

\* How many of the rectangles rects push candidate c during one pass
PushesInPass(c, rects) ==
  LET scan[i \in 0..Len(rects)] ==
        IF i = 0 THEN c ELSE CheckRect(scan[i - 1], rects[i])
  IN  Cardinality({i \in 1..Len(rects) : scan[i].yInch # scan[i - 1].yInch})

\* How many pushes group k received in all its passes
RECURSIVE PushesThrough(_, _)
PushesThrough(k, i) ==
  IF i = 0 THEN 0
  ELSE PushesThrough(k, i - 1)
         + PushesInPass(CandAt(k, PassStart(k, i)), SubSeq(placedRects, 1, k - 1))

Pushes(k) == PushesThrough(k, Len(Log[k].trail))

\* Group j, already placed, intersects a rectangle placed before it
ResidualOverlap(j) ==
  \E i \in 1..(j - 1) : Intersects(placedRects[i], placedRects[j])

\* C24 as claimed: a residual overlap is left only on a group that was
\* pushed by more than 10 distinct rectangles.
C24_ResidualOnlyAboveK ==
  Placing =>
    \A j \in 1..Len(placedRects) : ResidualOverlap(j) => Pushes(j) > MAX_ATTEMPTS

\* C24 (amended): no placed rectangle pushes a group twice, so a group is
\* pushed at most once per rectangle placed before it; a slide of at most 11
\* groups ends with pairwise non-intersecting rectangles; a residual overlap
\* is left only on a group that used up the 10 attempts, was pushed by at
\* least 10 rectangles and has more than 10 rectangles placed before it.
C24_SmallSlidesResolve ==
  Placing =>
    /\ \A j \in 1..Len(placedRects) :
         /\ Pushes(j) <= j - 1
         /\ Pushes(j) >= Log[j].attempts
         /\ ResidualOverlap(j) =>
              /\ Log[j].attempts = MAX_ATTEMPTS
              /\ Pushes(j) >= MAX_ATTEMPTS
              /\ j - 1 > MAX_ATTEMPTS
    /\ Len(renderQueue) <= MAX_ATTEMPTS + 1 =>
         \A i, j \in 1..Len(placedRects) :
           i < j => ~Intersects(placedRects[i], placedRects[j])

\* A group pushed by exactly 10 rectangles, one per attempt, was registered
\* where it intersects a further rectangle
C24_Witness ==
  /\ SlidePlaced
  /\ \E j \in 1..Len(placedRects) :
       /\ ResidualOverlap(j)
       /\ Pushes(j) = MAX_ATTEMPTS
       /\ Log[j].attempts = MAX_ATTEMPTS

\* The candidate as it is when rectangle i of the placed set is examined in
\* the pass that starts from the current candidate
ExaminedAt(i) ==
  LET scan[n \in 0..Len(placedRects)] ==
        IF n = 0 THEN cand ELSE CheckRect(scan[n - 1], placedRects[n])
  IN  scan[i - 1]

\* C25: a registered group's y is not above its initial converted y; it is
\* that initial y or bottom + 0.1 of a rectangle registered before it whose
\* horizontal range overlaps the group's; and whenever a rectangle
\* intersects the candidate as it is examined, its bottom + 0.1 is below
\* the candidate's y, so the guard newY > y lets the push through.
C25_FinalYIsInitialOrBelowARect ==
  /\ Placing =>
       \A k \in 1..Len(placedRects) :
         /\ placedRects[k].y >= InitialRect(k).y
         /\ \/ placedRects[k].y = InitialRect(k).y
            \/ \E j \in 1..(k - 1) :
                 /\ placedRects[k].y = placedRects[j].y + placedRects[j].h + PADDING
                 /\ placedRects[j].x < placedRects[k].x + placedRects[k].w
                 /\ placedRects[k].x < placedRects[j].x + placedRects[j].w
  /\ pc = "collide" =>
       \A i \in 1..Len(placedRects) :
         LET c == ExaminedAt(i)
         IN  Intersects([x |-> c.xInch, y |-> c.yInch, w |-> c.wInch, h |-> c.hEstInch],
                        placedRects[i])
               => placedRects[i].y + placedRects[i].h + PADDING > c.yInch

\* A slide holds a group registered at its initial y and a group registered
\* below a rectangle, after rectangles that do not overlap it horizontally
C25_Witness ==
  /\ SlidePlaced
  /\ \E k \in 1..Len(placedRects) :
       Log[k].attempts >= 1 /\ placedRects[k].y > InitialRect(k).y
  /\ \E k \in 2..Len(placedRects) :
       /\ placedRects[k].y = InitialRect(k).y
       /\ \E j \in 1..(k - 1) :
            /\ placedRects[j].y < placedRects[k].y + placedRects[k].h
            /\ placedRects[k].y < placedRects[j].y + placedRects[j].h


\* C26: the command of a text group has the x, y and width of the group's
\* registered rectangle; the command of a non-text singleton has the
\* converted x, y, width and height of the element itself, whatever y was
\* registered for it.
C26_AdjustedYOnlyForText ==
  Placing =>
    \A c \in 1..Len(Commands) :
      LET k == OwnerOf(c)
          el == renderQueue[k].elements[1]
      IN  IF el.type \in textTypes
            THEN /\ Commands[c].x = placedRects[k].x
                 /\ Commands[c].y = placedRects[k].y
                 /\ Commands[c].w = placedRects[k].w
            ELSE /\ Len(renderQueue[k].elements) = 1
                 /\ Commands[c].x = pxToInchX(el.x)
                 /\ Commands[c].y = pxToInchY(el.y)
                 /\ Commands[c].w = pxToInchX(el.width)
                 /\ Commands[c].h = <<pxToInchY(el.height)>>

\* A slide whose commands include a pushed text group and a non-text element
\* that was registered below its own measured position
C26_Witness ==
  /\ SlidePlaced
  /\ \E c \in 1..Len(Commands) :
       /\ renderQueue[OwnerOf(c)].elements[1].type \in textTypes
       /\ Commands[c].y > InitialRect(OwnerOf(c)).y
  /\ \E c \in 1..Len(Commands) :
       /\ renderQueue[OwnerOf(c)].elements[1].type \notin textTypes
       /\ placedRects[OwnerOf(c)].y > Commands[c].y


\* The elements of a sequence of measurements, as a set
ElementsOf(eles) == {eles[i] : i \in 1..Len(eles)}

\* C27: every group of the render queue is non-empty and is either one
\* non-text element alone or a run of text-type elements only, all of one
\* bucket, in ascending y.
C27_GroupsHomogeneous ==
  \A g \in 1..Len(renderQueue) :
    LET els == renderQueue[g].elements
    IN  /\ Len(els) >= 1
        /\ \/ Len(els) = 1 /\ els[1].type \notin textTypes
           \/ /\ \A i \in 1..Len(els) : els[i].type \in textTypes
              /\ \E k \in 1..Len(columns) : ElementsOf(els) \subseteq ElementsOf(columns[k].eles)
              /\ \A i \in 1..(Len(els) - 1) : els[i].y <= els[i + 1].y

\* One bucket has produced a run of at least two text elements and a
\* non-text element on its own
C27_Witness ==
  /\ Grouped
  /\ \E k \in 1..Len(columns) :
       /\ \E g \in 1..Len(renderQueue) :
            /\ Len(renderQueue[g].elements) >= 2
            /\ ElementsOf(renderQueue[g].elements) \subseteq ElementsOf(columns[k].eles)
       /\ \E g \in 1..Len(renderQueue) :
            /\ renderQueue[g].elements[1].type \notin textTypes
            /\ renderQueue[g].elements[1] \in ElementsOf(columns[k].eles)


\* The buckets that exist stay where they are, with the anchor they have
AnchorsKept ==
  /\ Len(columns') >= Len(columns)
  /\ \A k \in 1..Len(columns) : columns'[k].x = columns[k].x

\* C28: the anchors of two distinct buckets are at least 50px apart, every
\* element is less than 50px from the anchor of its own bucket, two
\* elements of one bucket are less than 100px apart, and no step of a
\* slide's layout changes the anchor of a bucket that exists.
C28_AnchorsApartAndFixed ==
  /\ [](\A k \in 1..Len(columns) :
          /\ \A j \in 1..Len(columns) :
               j # k => Abs(columns[j].x - columns[k].x) >= BUCKET_THRESHOLD
          /\ \A e \in ElementsOf(columns[k].eles) :
               /\ Abs(e.x - columns[k].x) < BUCKET_THRESHOLD
               /\ \A f \in ElementsOf(columns[k].eles) :
                    Abs(e.x - f.x) < 2 * BUCKET_THRESHOLD)
  /\ [][pc # "measure" => AnchorsKept]_vars

\* A bucket holds two elements 98px apart, on either side of its anchor, and
\* another bucket is anchored exactly 50px from it
C28_Witness ==
  /\ pc = "group"
  /\ \E k, l \in 1..Len(columns) :
       /\ columns[l].x - columns[k].x = BUCKET_THRESHOLD
       /\ \E e, f \in ElementsOf(columns[k].eles) :
            /\ e.x < columns[k].x
            /\ columns[k].x < f.x
            /\ f.x - e.x = 2 * BUCKET_THRESHOLD - 2


\* The passes of placed group k that pushed it
PushingPasses(k) ==
  {i \in 1..Len(Log[k].trail) : Log[k].trail[i] > PassStart(k, i)}

\* C30: a pass over the placed set adds one to attempts when it pushed the
\* candidate, however many rectangles pushed it, and nothing otherwise; a
\* placed group's attempts is the number of its passes that pushed it, and a
\* group placed with attempts = 10 was pushed in its last pass.
C30_AttemptsCountPasses ==
  /\ [](Placing =>
          \A k \in 1..Len(placedRects) :
            /\ Log[k].passes = Len(Log[k].trail)
            /\ Log[k].attempts = Cardinality(PushingPasses(k))
            /\ Log[k].attempts <= MAX_ATTEMPTS
            /\ Log[k].attempts = MAX_ATTEMPTS => Log[k].passes \in PushingPasses(k)
            /\ (Log[k].attempts < MAX_ATTEMPTS /\ Log[k].passes > 0)
                 => Log[k].passes \notin PushingPasses(k))
  /\ [][(pc = "collide" /\ passes' = passes + 1) =>
          cand'.attempts = IF cand'.yInch > cand.yInch
                             THEN cand.attempts + 1 ELSE cand.attempts]_vars

\* A group was pushed by more than 10 rectangles in a single counted attempt
C30_Witness ==
  /\ SlidePlaced
  /\ \E k \in 1..Len(placedRects) :
       /\ Pushes(k) > MAX_ATTEMPTS
       /\ Log[k].attempts = 1
       /\ Log[k].passes = 2


\* C23 as claimed: whenever the exporter evaluates measureElements(), the
\* page has already set window.measurementsReady to true.
C23_MeasuredWhenReady ==
  [][(pc = "measure" /\ pc' = "bucket") => page.measurementsReady]_vars

\* The export has returned
Returned == result # "none"

\* C29: browser.close() is called at most once; it has not been called while
\* the slide loop runs; it has been called exactly once, and the browser is
\* closed, from the end of the finally block on, whether the loop ended or an
\* awaited call threw, and so whenever a result has been returned.
C29_BrowserClosedOnce ==
  /\ closes <= 1
  /\ (browser = "closed") = (closes = 1)
  /\ pc \in {"write", "catch", "done", "failed"} => closes = 1
  /\ pc \notin {"write", "catch", "done", "failed"} => closes = 0 /\ ~Returned
  /\ Returned => /\ closes = 1
                 /\ pc = (IF thrown THEN "failed" ELSE "done")
                 /\ result = (IF thrown THEN "error" ELSE "success")
  /\ pc \in {"done", "failed"} => Returned

\* The measurement of the second slide threw after the first slide had been
\* laid out, and the export has returned its error
C29_Witness ==
  /\ result = "error"
  /\ closes = 1
  /\ slideIndex = 1
  /\ Len(pptx) = 1
  /\ Len(pptx[1]) > 0
  /\ page.loaded

============================================================================
